---- MODULE Spec2Model ----
(***************************************************************************)
(* Model of src/sitemap_gen_script.py: the streaming extraction and        *)
(* partitioning pipeline driven by handle().                               *)
(*                                                                         *)
(* One run of handle() is one behaviour.  The initial state fixes the      *)
(* command-line options and the parsed source document; the actions are    *)
(* the calls handle() makes, in the order it makes them:                   *)
(*   get_element_iterators  (selector resolution, line 153)                *)
(*   make_sitemap_tree      (one islice pull and one urlset, line 157)     *)
(*   write_sitemap_tree     (one file and one index entry, lines 162-165)  *)
(*   the break at line 160 followed by the index decision, lines 168-171.  *)
(*                                                                         *)
(* The source document is a sequence of leaf elements in document order;   *)
(* an element has a tag and a text.  gzip siblings, the report print-out   *)
(* and the timing entry of the report take no part in the pipeline's       *)
(* control flow and are left out.                                          *)
(***************************************************************************)
EXTENDS Naturals, Sequences, FiniteSets, TLC

(* ------------------------------ bounds -------------------------------- *)
\* Largest number of elements in the source document.
MaxNodes == 3
\* Largest value of the option "addresses per file" that is explored.
MaxEntries == 2

(* --------------------------- input universe --------------------------- *)
\* Python's None: the text of an element without text content.
None == "<None>"
\* Element texts: absent, empty, whitespace-only and two addresses.
Texts == {None, "", " ", "https://a/1", "https://a/2"}
\* Element tags found under <offer> in the source document.
NodeTags == {"url", "link"}
Nodes == [tag : NodeTags, text : Texts]

\* XPath expressions offered on the command line; the last one is an
\* unterminated predicate, for which iterfind raises SyntaxError.
XPaths == {"//offer/url", "//offer/link", "//offer["}
\* Ordered selector lists given with -t.
TagLists ==
    { <<>>,
      <<"//offer/url">>,
      <<"//offer/link">>,
      <<"//offer/url", "//offer/link">>,
      <<"//offer/link", "//offer/url">>,
      <<"//offer/url", "//offer/url">>,
      <<"//offer[">>,
      <<"//offer/url", "//offer[">>,
      <<"//offer[", "//offer/url">> }

\* Defaults of the options that are not varied.
prefix == "sitemap"
output_dir == "./sitemap"
urls_priority == "0.3"

(* ------------------------------ helpers ------------------------------- *)
Range(s) == { s[i] : i \in 1..Len(s) }

Min(a, b) == IF a <= b THEN a ELSE b

\* All sequences over S of length at most n.
SeqsUpTo(S, n) == UNION { [1..k -> S] : k \in 0..n }

(* ------------------------- the pure functions ------------------------- *)
\* A truth test that only rejects a missing text ("is not None").
TextIsNotNone(text) == text # None

\* Python truthiness of element.text (line 214): None and "" are false,
\* every other string, whitespace included, is true.
Truthy(text) == text \notin {None, ""}

\* Whether element.iterfind accepts the expression (lines 189-193); a
\* rejected expression raises SyntaxError when iterfind is called.
IsValidXPath(x_path) == x_path # "//offer["

\* The element tag a valid expression selects.
XPathTag(x_path) == IF x_path = "//offer/url" THEN "url" ELSE "link"

\* element.iterfind(x_path): the matching elements in document order.
Iterfind(element, x_path) ==
    SelectSeq(element, LAMBDA n : n.tag = XPathTag(x_path))

\* zip_longest(elements, [], fillvalue=x_path) (line 190): every element
\* paired with the expression that found it.
ZipLongest(elements, x_path) ==
    [i \in 1..Len(elements) |-> [elem |-> elements[i], tag |-> x_path]]

\* chain(*iterators) (line 195): the iterators one after the other.
RECURSIVE Chain(_)
Chain(iterators) ==
    IF iterators = <<>> THEN <<>>
    ELSE Head(iterators) \o Chain(Tail(iterators))

\* A resolution that only validates the first expression.
FirstResolves(xpath_expressions) ==
    xpath_expressions # <<>> => IsValidXPath(xpath_expressions[1])

\* True when every expression resolves, the loop of lines 188-193 running to
\* its end without reaching exit(1).
AllResolve(xpath_expressions) ==
    \A i \in 1..Len(xpath_expressions) : IsValidXPath(xpath_expressions[i])

\* The iterator returned at line 195.
ElementIterators(element, xpath_expressions) ==
    Chain([i \in 1..Len(xpath_expressions) |->
              ZipLongest(Iterfind(element, xpath_expressions[i]),
                         xpath_expressions[i])])

\* An islice that yields one item too many.
IsliceOneMore(iterators, entries_num) ==
    SubSeq(iterators, 1, Min(entries_num + 1, Len(iterators)))

\* islice(iterators, entries_num) (line 213): the next entries_num items, or
\* all that are left.
Islice(iterators, entries_num) ==
    SubSeq(iterators, 1, Min(entries_num, Len(iterators)))

\* What islice leaves in the iterator.
Rest(iterators, entries_num) ==
    SubSeq(iterators, Len(Islice(iterators, entries_num)) + 1, Len(iterators))

\* The children of urlset built by the loop of lines 213-217: one url per
\* pulled item with a true text.  The field tag is not part of the XML; it
\* records which expression the url came from.
RECURSIVE SitemapUrls(_, _)
SitemapUrls(pulled, url_priority) ==
    IF pulled = <<>> THEN <<>>
    ELSE (IF Truthy(Head(pulled).elem.text)
             THEN << [loc |-> Head(pulled).elem.text,
                      priority |-> url_priority,
                      tag |-> Head(pulled).tag] >>
             ELSE <<>>)
         \o SitemapUrls(Tail(pulled), url_priority)

\* A tally that counts every pulled item, dropped or not.
TagsPulled(tags_handled, pulled) ==
    [t \in DOMAIN tags_handled |->
        tags_handled[t]
        + Cardinality({ i \in 1..Len(pulled) : pulled[i].tag = t })]

\* report['tags handled'] after the loop of lines 213-218.
TagsHandled(tags_handled, pulled) ==
    [t \in DOMAIN tags_handled |->
        tags_handled[t]
        + Cardinality({ i \in 1..Len(pulled) :
                          pulled[i].tag = t /\ Truthy(pulled[i].elem.text) })]

\* An exit test that asks whether there is a root at all ("is None").
TreeIsNone(tree) == FALSE

\* The loop's exit test (line 159): the urlset has no child.
TreeIsEmpty(tree) == Len(tree) = 0

\* A file name without the 'or ""': the first file is numbered 0.
FileNameNumbered(filename_prefix, file_number) ==
    filename_prefix \o ToString(file_number) \o ".xml"

\* The file name of line 236: f'{filename_prefix}{file_number or ""}.xml'.
FileName(filename_prefix, file_number) ==
    filename_prefix \o (IF file_number = 0 THEN "" ELSE ToString(file_number))
                    \o ".xml"

\* output_path / name, as str() renders it.
PathJoin(output_path, name) == output_path \o "/" \o name

\* An index test that accepts a single sitemap file.
IndexNeededForOne(index_root) == Len(index_root) > 0

\* The test of line 168: more than one sitemap file.
IndexNeeded(index_root) == Len(index_root) > 1

(* ------------------------------- state -------------------------------- *)
VARIABLES
    parsed_xml_tree,     \* the source document: its elements in document order
    tags,                \* options['target tag(s)']
    entries_number,      \* options['addresses per file']
    pc,                  \* where handle() is
    element_iterators,   \* what the chained iterator has not yielded yet
    pulled,              \* the items islice yielded in the latest call
    sitemap_tree,        \* children of the latest urlset
    output_files,        \* the sitemap files written, in writing order
    sitemap_index_root,  \* children of sitemapindex: the loc texts
    index_file,          \* sitemap-index.xml: whether written, and its locs
    report               \* the report dict

vars == << parsed_xml_tree, tags, entries_number, pc, element_iterators,
           pulled, sitemap_tree, output_files, sitemap_index_root,
           index_file, report >>

inputs == << parsed_xml_tree, tags, entries_number >>

\* handle() up to line 150: the options are read, the source is parsed, the
\* index tree is empty and the report has no counters.
Init ==
    /\ parsed_xml_tree \in SeqsUpTo(Nodes, MaxNodes)
    /\ tags \in TagLists
    /\ entries_number \in 1..MaxEntries
    /\ pc = "get_element_iterators"
    /\ element_iterators = <<>>
    /\ pulled = <<>>
    /\ sitemap_tree = <<>>
    /\ output_files = <<>>
    /\ sitemap_index_root = <<>>
    /\ index_file = [written |-> FALSE, locs |-> <<>>]
    /\ report = [tags_handled |-> [t \in {} |-> 0],
                 files_created |-> 0,
                 index_created |-> 0]

(* ------------------------------ actions ------------------------------- *)
\* get_element_iterators (lines 186-195), called at line 153.  The counters
\* are zeroed first; an expression iterfind rejects ends the run at line 193.
GetElementIterators ==
    /\ pc = "get_element_iterators"
    /\ report' = [report EXCEPT
                     !.tags_handled = [t \in Range(tags) |-> 0]]
    /\ IF AllResolve(tags)
          THEN /\ element_iterators' = ElementIterators(parsed_xml_tree, tags)
               /\ pc' = "make_sitemap_tree"
          ELSE /\ element_iterators' = element_iterators
               /\ pc' = "exit"
    /\ UNCHANGED << inputs, pulled, sitemap_tree, output_files,
                    sitemap_index_root, index_file >>

\* make_sitemap_tree (lines 209-220), called at line 157.
MakeSitemapTree ==
    /\ pc = "make_sitemap_tree"
    /\ pulled' = Islice(element_iterators, entries_number)
    /\ element_iterators' = Rest(element_iterators, entries_number)
    /\ sitemap_tree' = SitemapUrls(pulled', urls_priority)
    /\ report' = [report EXCEPT
                     !.tags_handled = TagsHandled(report.tags_handled, pulled')]
    /\ pc' = "check_tree"
    /\ UNCHANGED << inputs, output_files, sitemap_index_root, index_file >>

\* write_sitemap_tree (lines 235-247) and the index entry of lines 164-165.
WriteSitemapTree ==
    /\ pc = "check_tree"
    /\ ~ TreeIsEmpty(sitemap_tree)
    /\ LET file_number == report.files_created
           output_file == FileName(prefix, file_number)
       IN  /\ report' = [report EXCEPT !.files_created = file_number + 1]
           /\ output_files' = Append(output_files,
                                     [name |-> output_file,
                                      urls |-> sitemap_tree,
                                      pulled |-> pulled])
           /\ sitemap_index_root' =
                  Append(sitemap_index_root, PathJoin(output_dir, output_file))
    /\ pc' = "make_sitemap_tree"
    /\ UNCHANGED << inputs, element_iterators, pulled, sitemap_tree,
                    index_file >>

\* write_sitemap_tree when the file cannot be opened (line 239): the counter
\* was already raised at line 237 and the exception ends the run.
WriteSitemapTreeFails ==
    /\ pc = "check_tree"
    /\ ~ TreeIsEmpty(sitemap_tree)
    /\ report' = [report EXCEPT !.files_created = report.files_created + 1]
    /\ pc' = "error"
    /\ UNCHANGED << inputs, element_iterators, pulled, sitemap_tree,
                    output_files, sitemap_index_root, index_file >>

\* The break of lines 159-160, then lines 168-171: the index is written by
\* write_sitemap_index_tree (lines 259-263) when it is needed, and handle()
\* returns.
BreakAndReturn ==
    /\ pc = "check_tree"
    /\ TreeIsEmpty(sitemap_tree)
    /\ IF IndexNeeded(sitemap_index_root)
          THEN /\ index_file' = [written |-> TRUE, locs |-> sitemap_index_root]
               /\ report' = [report EXCEPT !.index_created = 1]
          ELSE /\ index_file' = index_file
               /\ report' = report
    /\ pc' = "done"
    /\ UNCHANGED << inputs, element_iterators, pulled, sitemap_tree,
                    output_files, sitemap_index_root >>

Next ==
    \/ GetElementIterators
    \/ MakeSitemapTree
    \/ WriteSitemapTree
    \/ WriteSitemapTreeFails
    \/ BreakAndReturn

Spec == Init /\ [][Next]_vars

TypeOK ==
    /\ pc \in {"get_element_iterators", "make_sitemap_tree", "check_tree",
               "done", "exit", "error"}
    /\ entries_number \in 1..MaxEntries
    /\ Len(parsed_xml_tree) <= MaxNodes

(* ===================== properties of the pipeline ===================== *)
(* The definitions below state what is expected of a run; they are written *)
(* from the source document and the options, not from the operators above. *)

\* A text that is neither absent nor the empty string.
NonEmptyText(text) == text # None /\ text # ""

\* A text that is absent, empty or made of whitespace only.
BlankText(text) == text \in {None, "", " "}

RECURSIVE Concat(_)
Concat(seqs) ==
    IF seqs = <<>> THEN <<>> ELSE Head(seqs) \o Concat(Tail(seqs))

RECURSIVE SumOver(_, _)
SumOver(f, S) ==
    IF S = {} THEN 0
    ELSE LET x == CHOOSE y \in S : TRUE IN f[x] + SumOver(f, S \ {x})

\* The elements of the source an expression matches, in document order.
MatchesOf(x_path) ==
    SelectSeq(parsed_xml_tree,
              LAMBDA n : \/ x_path = "//offer/url" /\ n.tag = "url"
                         \/ x_path = "//offer/link" /\ n.tag = "link")

\* All matching items as <<text, expression>>: selector order outer,
\* document order inner.
MatchingItems ==
    Concat([i \in 1..Len(tags) |->
               [j \in 1..Len(MatchesOf(tags[i])) |->
                   << MatchesOf(tags[i])[j].text, tags[i] >>]])

\* The matching items with a non-empty text.
ExpectedUrls ==
    SelectSeq(MatchingItems, LAMBDA it : NonEmptyText(it[1]))

\* The url entries of all files written, in file order, as
\* <<loc, expression>>.
WrittenUrls ==
    Concat([i \in 1..Len(output_files) |->
               [j \in 1..Len(output_files[i].urls) |->
                   << output_files[i].urls[j].loc,
                      output_files[i].urls[j].tag >>]])

\* The loc texts of a file.
Locs(file) == [j \in 1..Len(file.urls) |-> file.urls[j].loc]

\* Some selector of the list is syntactically invalid.
SomeInvalid == \E i \in 1..Len(tags) : tags[i] = "//offer["

\* How many items of a batch have an absent or empty text.
EmptyIn(items) ==
    Cardinality({ j \in 1..Len(items) : ~ NonEmptyText(items[j].elem.text) })

CeilDiv(n, m) == (n + m - 1) \div m

\* C1. Order preservation: when the run has completed, the url entries of
\* all files written, concatenated in file order, are exactly the matching
\* items with non-empty text, selector order outer and document order inner.
C1_OrderPreservation ==
    pc = "done" => WrittenUrls = ExpectedUrls

\* C2 as stated. Partition bound: every file written holds at most
\* entries_number url entries and every file but the last holds exactly
\* entries_number.
C2_AllButLastFull ==
    \A i \in 1..Len(output_files) :
        /\ Len(output_files[i].urls) <= entries_number
        /\ i < Len(output_files) =>
               Len(output_files[i].urls) = entries_number

\* C2 amended. Every file written holds at most entries_number url entries,
\* and every file but the last was built from exactly entries_number pulled
\* items: it holds entries_number minus the number of those items whose text
\* is absent or empty.
C2_PartitionBound ==
    \A i \in 1..Len(output_files) :
        /\ Len(output_files[i].urls) <= entries_number
        /\ i < Len(output_files) =>
               /\ Len(output_files[i].pulled) = entries_number
               /\ Len(output_files[i].urls)
                      = entries_number - EmptyIn(output_files[i].pulled)

\* A file that is not the last one holds fewer than entries_number entries.
C2_Witness ==
    /\ Len(output_files) >= 2
    /\ Len(output_files[1].urls) < entries_number

\* C3. The loop exits only on exhaustion: once handle() has left the loop,
\* the merged extraction sequence has no item left.
C3_ExitOnlyOnExhaustion ==
    pc = "done" => element_iterators = <<>>

\* C4. No empty files: every sitemap file written holds at least one url
\* entry, and was built from a batch with at least one item that was kept.
C4_NoEmptyFiles ==
    \A i \in 1..Len(output_files) :
        /\ Len(output_files[i].urls) >= 1
        /\ EmptyIn(output_files[i].pulled) < Len(output_files[i].pulled)

\* The run ended on a batch whose items were all dropped, after writing at
\* least one file.
C4_Witness ==
    /\ pc = "done"
    /\ Len(output_files) >= 1
    /\ pulled # <<>>
    /\ sitemap_tree = <<>>

\* C5. Drop rule: after make_sitemap_tree, the pulled items whose text is
\* absent, empty or whitespace-only have produced no url entry and no tally
\* increment, while counting among the at most entries_number pulled items.
C5_DropRule ==
    pc = "check_tree" =>
        /\ Len(pulled) <= entries_number
        /\ Len(sitemap_tree)
               = Cardinality({ j \in 1..Len(pulled) :
                                 ~ BlankText(pulled[j].elem.text) })
        /\ \A j \in 1..Len(sitemap_tree) : ~ BlankText(sitemap_tree[j].loc)
        /\ SumOver(report.tags_handled, DOMAIN report.tags_handled)
               = Len(WrittenUrls) + Len(sitemap_tree)

\* C6. Index presence: when the run has completed, sitemap-index.xml has
\* been written if and only if at least two sitemap files were written; it
\* then lists them.
C6_IndexPresence ==
    pc = "done" =>
        /\ index_file.written <=> Len(output_files) >= 2
        /\ Len(output_files) = 1 => ~ index_file.written
        /\ Len(output_files) = 0 => ~ index_file.written
        /\ index_file.written => Len(index_file.locs) = Len(output_files)

\* A completed run that wrote two files or more and the index.
C6_Witness ==
    /\ pc = "done"
    /\ Len(output_files) >= 2
    /\ index_file.written

\* The source and options of the round-trip scenario: the single selector
\* //offer/url matches three elements with texts a/1, "" and a/2, and
\* entries_number is 2.
RoundTripScenario ==
    /\ tags = << "//offer/url" >>
    /\ entries_number = 2
    /\ LET m == MatchesOf("//offer/url")
       IN  [j \in 1..Len(m) |-> m[j].text]
               = << "https://a/1", "", "https://a/2" >>

\* C7 as stated. The scenario ends with one file sitemap.xml holding a/1
\* then a/2, no index, and a tally of 2.
C7_OneFile ==
    (RoundTripScenario /\ pc = "done") =>
        /\ Len(output_files) = 1
        /\ output_files[1].name = "sitemap.xml"
        /\ Locs(output_files[1]) = << "https://a/1", "https://a/2" >>
        /\ ~ index_file.written
        /\ report.tags_handled["//offer/url"] = 2

\* C7 amended. The scenario ends with two files: sitemap.xml holding a/1
\* (its batch was a/1 and the dropped empty item) and sitemap1.xml holding
\* a/2; the index is written and lists both, and the tally is 2.
C7_RoundTrip ==
    (RoundTripScenario /\ pc = "done") =>
        /\ Len(output_files) = 2
        /\ output_files[1].name = "sitemap.xml"
        /\ Locs(output_files[1]) = << "https://a/1" >>
        /\ output_files[2].name = "sitemap1.xml"
        /\ Locs(output_files[2]) = << "https://a/2" >>
        /\ index_file.written
        /\ index_file.locs = << "./sitemap/sitemap.xml",
                                "./sitemap/sitemap1.xml" >>
        /\ report.tags_handled = [t \in {"//offer/url"} |-> 2]

\* The scenario has run to completion.
C7_Witness == RoundTripScenario /\ pc = "done"

\* The name expected of the k-th file written, k counted from 0.
ExpectedName(k) ==
    IF k = 0 THEN "sitemap.xml"
    ELSE IF k = 1 THEN "sitemap1.xml"
    ELSE "sitemap" \o ToString(k) \o ".xml"

\* N >= 1 matching items, all of non-empty text.
AllNonEmpty ==
    /\ Len(MatchingItems) >= 1
    /\ \A j \in 1..Len(MatchingItems) : NonEmptyText(MatchingItems[j][1])

\* C8. Multi-file naming and index order: with N >= 1 matching items, all of
\* non-empty text, and a cap M, a completed run has written ceil(N/M) files;
\* the k-th is named sitemap.xml for k = 0 and sitemap{k}.xml after that,
\* all names differ, every file holds M entries but the last, which holds
\* the remainder, and with two files or more the index lists one entry per
\* file in file order.
C8_MultiFile ==
    (pc = "done" /\ AllNonEmpty) =>
        LET N == Len(MatchingItems)
            M == entries_number
            F == CeilDiv(N, M)
        IN  /\ Len(output_files) = F
            /\ \A k \in 0..(F - 1) :
                   /\ output_files[k + 1].name = ExpectedName(k)
                   /\ Len(output_files[k + 1].urls)
                          = (IF k < F - 1 THEN M ELSE N - M * (F - 1))
            /\ \A k, l \in 1..F :
                   k # l => output_files[k].name # output_files[l].name
            /\ F >= 2 =>
                   /\ index_file.written
                   /\ index_file.locs
                          = [k \in 1..F |->
                                "./sitemap/" \o output_files[k].name]

\* A completed run over non-empty items only that wrote three files or more.
C8_Witness ==
    /\ pc = "done"
    /\ AllNonEmpty
    /\ Len(output_files) >= 3

\* C9. Selector fail-fast: with an invalid expression anywhere in the list,
\* the run never gets past selector resolution: no item is pulled, no
\* sitemap file is written, no index entry is made and no index is written.
C9_FailFast ==
    SomeInvalid =>
        /\ pc \in {"get_element_iterators", "exit"}
        /\ element_iterators = <<>>
        /\ pulled = <<>>
        /\ sitemap_tree = <<>>
        /\ output_files = <<>>
        /\ sitemap_index_root = <<>>
        /\ ~ index_file.written

\* The run was aborted because of an invalid expression that is not the
\* first of the list, over a source the first expression has addresses in.
C9_Witness ==
    /\ pc = "exit"
    /\ Len(tags) = 2
    /\ tags[2] = "//offer["
    /\ \E j \in 1..Len(MatchesOf(tags[1])) :
           NonEmptyText(MatchesOf(tags[1])[j].text)

\* How many url entries written so far came from an expression.
WrittenFrom(x_path) ==
    Cardinality({ j \in 1..Len(WrittenUrls) : WrittenUrls[j][2] = x_path })

\* C10. Tally consistency: from selector resolution on, the report has a
\* counter for every supplied expression; the counters are zero when the
\* run is aborted at resolution; at the top of every loop iteration and at
\* the end of the run each counter is the number of url entries written so
\* far that came from its expression, the counters sum to the number of url
\* entries written, and 'sitemap files created' is the number of index
\* entries.
C10_TallyConsistency ==
    /\ pc # "get_element_iterators" =>
           DOMAIN report.tags_handled = Range(tags)
    /\ pc = "exit" =>
           \A t \in Range(tags) : report.tags_handled[t] = 0
    /\ pc \in {"make_sitemap_tree", "done"} =>
           /\ \A t \in Range(tags) : report.tags_handled[t] = WrittenFrom(t)
           /\ SumOver(report.tags_handled, Range(tags)) = Len(WrittenUrls)
           /\ report.files_created = Len(sitemap_index_root)
           /\ report.files_created = Len(output_files)

\* A completed run with two expressions, one with a zero counter and one
\* without, in which an item was dropped.
C10_Witness ==
    /\ pc = "done"
    /\ Cardinality(Range(tags)) = 2
    /\ \E t \in Range(tags) : report.tags_handled[t] = 0
    /\ \E t \in Range(tags) : report.tags_handled[t] >= 1
    /\ Len(ExpectedUrls) < Len(MatchingItems)
====
